---- MODULE Spec2Model ----
(***************************************************************************)
(* Model of the real-time voice session engine of imagomum-backend:        *)
(* src/src/services/audioWebSocketService.js (AudioWebSocketService), with *)
(* the collaborators it calls: AIChatService.sendChatMessage, the          *)
(* ChatConversation and ChatMessage stores.                                *)
(*                                                                         *)
(* Every ws 'message' event starts its own async handler; the event        *)
(* emitter does not wait for the handler's promise, so a handler that is   *)
(* suspended at an await coexists with handlers of later frames.  A        *)
(* handler is modelled as a record with a pc naming the await it is        *)
(* suspended at; one action runs the code between two awaits.              *)
(*                                                                         *)
(* Audio bytes are modelled frame-wise: a frame is a record [id, len] and  *)
(* a buffer is the sequence of the frames concatenated into it (the code   *)
(* never splits a frame), so equality of buffers is equality of bytes.     *)
(***************************************************************************)
EXTENDS Integers, Sequences, FiniteSets, TLC

\* ---------------------------------------------------------------- bounds
MaxSessions == 1
MaxFrames == 2
MaxCtl == 2
\* the registry specification: more connections, fewer audio frames
RegSessions == 2
RegFrames == 1
MaxRejects == 1
\* the stop/start specification: one more control message
StopStartCtl == 3

\* ------------------------------------------------------ program constants
ChunkThreshold == 3200
NoThread == 0
UndefinedThread == -1
NoResponseLen == 11
TtsTextPerChunk == 10

\* ------------------------------------------------------------ input sets
SessionIds == 1..RegSessions
FrameIds == 1..MaxFrames
Users == {"u1"}
FrameSizes == {1600, 4000}
\* thread ids a client may send in set_thread: 1 names a conversation of
\* user u1 that exists in the store, 2 names no conversation
ThreadInputs == {1, 2}
ReplyLens == {25}
\* the token of an upgrade request: absent, present and rejected by
\* jwt.verify, or present and verified with the user id it carries
Token(given, valid, id) == [given |-> given, valid |-> valid, id |-> id]

Tokens ==
  {Token(FALSE, FALSE, "none"), Token(TRUE, FALSE, "none")}
  \cup {Token(TRUE, TRUE, u) : u \in Users}
\* the (model, language) payloads of a start message
StartConfigs == {<<"undefined", "undefined">>, <<"nova-2", "fr-FR">>}

VARIABLES sessions, sess, out, hs, convs, msgs, received, dispatched,
          backendCalls, ttsCalls, nFrames, nCtl, nConns, nRejected, phase

vars == <<sessions, sess, out, hs, convs, msgs, received, dispatched,
          backendCalls, ttsCalls, nFrames, nCtl, nConns, nRejected, phase>>

\* ---------------------------------------------------------------- helpers
RECURSIVE BufLen(_)
BufLen(buf) == IF buf = <<>> THEN 0 ELSE Head(buf).len + BufLen(Tail(buf))

\* !threadId of the source: null and undefined are both falsy
Falsy(t) == t = NoThread \/ t = UndefinedThread

generateThreadId(h) == 100 + h

\* Math.ceil(text.length / 10) of simulateTTS
TotalChunks(len) == (len + TtsTextPerChunk - 1) \div TtsTextPerChunk

\* an outbound frame: its type and message text, the turn (the id of the
\* audio frame whose handler wrote it, 0 outside a handler) and, for a binary
\* frame, the index of the TTS chunk.  out[s][k] is the subsequence of the
\* frames written to the socket of session s that turn k wrote (k = 0: the
\* frames written outside a turn); the order between two subsequences is the
\* order of the steps that extend them.
Frame(type, text, turn, n) == [type |-> type, text |-> text, turn |-> turn, n |-> n]

\* a mutation of sendMessage: no readyState check
sendMessageUnchecked(o, s, type, text, turn) ==
  [o EXCEPT ![s][turn] = Append(@, Frame(type, text, turn, 0))]

\* sendMessage: the frame is written only when the socket is OPEN
sendMessage(o, s, type, text, turn) ==
  IF sess[s].ws = "OPEN"
  THEN [o EXCEPT ![s][turn] = Append(@, Frame(type, text, turn, 0))]
  ELSE o

\* a mutation of the chunk loop: the chunks are written last first
RECURSIVE sendChunksReversed(_, _, _, _)
sendChunksReversed(o, s, turn, n) ==
  IF n = 0 THEN o
  ELSE sendChunksReversed(
         IF sess[s].ws = "OPEN"
         THEN [o EXCEPT ![s][turn] = Append(@, Frame("audio", "pcm", turn, n))]
         ELSE o,
         s, turn, n - 1)

RECURSIVE sendChunks(_, _, _, _)
sendChunks(o, s, turn, n) ==
  IF n = 0 THEN o
  ELSE LET prev == sendChunks(o, s, turn, n - 1)
       IN IF sess[s].ws = "OPEN"
          THEN [prev EXCEPT ![s][turn] = Append(@, Frame("audio", "pcm", turn, n))]
          ELSE prev

NewSession(u) ==
  [ws |-> "OPEN", userId |-> u, threadId |-> NoThread, isTranscribing |-> FALSE,
   audioBuffer |-> <<>>, audioBufferNull |-> FALSE, model |-> "undefined",
   language |-> "undefined", conversationId |-> NoThread]

NoSession ==
  [ws |-> "NONE", userId |-> "none", threadId |-> NoThread, isTranscribing |-> FALSE,
   audioBuffer |-> <<>>, audioBufferNull |-> FALSE, model |-> "undefined",
   language |-> "undefined", conversationId |-> NoThread]

\* the locals of one audio handler: the await it is suspended at, its
\* session, the chunk handed to processAudioChunk, finalThreadId, the conversation instance it holds (its id and
\* the messageCount the instance was loaded with) and the reply text
IdleHandler ==
  [pc |-> "idle", s |-> 0, chunk |-> <<>>, threadId |-> NoThread,
   conv |-> NoThread, convCount |-> 0, resp |-> "none", respLen |-> 0]

\* inbound text frames: what JSON.parse makes of the text, and for an object
\* the fields handleControlMessage reads
Msg(json, action, threadId, model, language) ==
  [json |-> json, action |-> action, threadId |-> threadId, model |-> model,
   language |-> language]

TextFrames ==
  {Msg(j, "undefined", UndefinedThread, "undefined", "undefined") :
     j \in {"invalid", "null", "nonobject"}}
  \cup {Msg("object", a, UndefinedThread, "undefined", "undefined") :
          a \in {"stop", "bogus", "undefined"}}
  \cup {Msg("object", "start", UndefinedThread, c[1], c[2]) : c \in StartConfigs}
  \cup {Msg("object", "set_thread", t, "undefined", "undefined") :
          t \in ThreadInputs \cup {UndefinedThread}}

\* ------------------------------------------------------------------- Init
Init ==
  /\ sessions = {}
  /\ sess = [s \in SessionIds |-> NoSession]
  /\ out = [s \in SessionIds |-> [k \in 0..MaxFrames |-> <<>>]]
  /\ hs = [h \in FrameIds |-> IdleHandler]
  /\ convs = [t \in {1} |-> [userId |-> "u1", messageCount |-> 0]]
  /\ msgs = {}
  /\ received = [s \in SessionIds |-> <<>>]
  /\ dispatched = [s \in SessionIds |-> <<>>]
  /\ backendCalls = {}
  /\ ttsCalls = {}
  /\ nFrames = 0
  /\ nCtl = 0
  /\ nConns = 0
  /\ nRejected = 0
  /\ phase = "running"

\* ------------------------------------------------- connection and cleanup
\* a mutation of the connection handler: no 'connected' frame
ConnectionWithoutAck(u) ==
  /\ phase = "running"
  /\ nConns < RegSessions
  /\ LET s == nConns + 1 IN
     /\ nConns' = s
     /\ sess' = [sess EXCEPT ![s] = NewSession(u)]
     /\ sessions' = sessions \cup {s}
  /\ UNCHANGED <<out, hs, convs, msgs, received, dispatched, backendCalls,
                 ttsCalls, nFrames, nCtl, nRejected, phase>>

\* wss.on('connection'): the session is registered, then 'connected' is sent
Connection(u) ==
  /\ phase = "running"
  /\ nConns < RegSessions
  /\ LET s == nConns + 1 IN
     /\ nConns' = s
     /\ sess' = [sess EXCEPT ![s] = NewSession(u)]
     /\ sessions' = sessions \cup {s}
     /\ out' = [out EXCEPT ![s][0] = Append(@, Frame("connected", "connected", 0, 0))]
  /\ UNCHANGED <<hs, convs, msgs, received, dispatched, backendCalls,
                 ttsCalls, nFrames, nCtl, nRejected, phase>>

\* a mutation of verifyClient: the token is not verified
verifyClientSkipsVerify(token) == token.given

\* verifyClient: no token, or a token jwt.verify throws on, refuses the upgrade
verifyClient(token) ==
  IF ~token.given THEN FALSE ELSE token.valid

\* an upgrade request: verifyClient decides whether the connection event fires
Upgrade(token) ==
  IF verifyClient(token)
  THEN Connection(token.id)
  ELSE /\ phase = "running"
       /\ nRejected < MaxRejects
       /\ nRejected' = nRejected + 1
       /\ UNCHANGED <<sessions, sess, out, hs, convs, msgs, received, dispatched,
                      backendCalls, ttsCalls, nFrames, nCtl, nConns, phase>>

\* a mutation of cleanupSession: the registry entry is not deleted
cleanupSessionKeepsEntry(reg, ss, s) ==
  IF s \in reg
  THEN [sessions |-> reg,
        sess |-> [ss EXCEPT ![s].isTranscribing = FALSE, ![s].audioBuffer = <<>>,
                            ![s].audioBufferNull = TRUE]]
  ELSE [sessions |-> reg, sess |-> ss]

\* a mutation of cleanupSession: no `if (session)` guard, the object of a
\* session that is no longer registered is cleared again
cleanupSessionUnguarded(reg, ss, s) ==
  [sessions |-> reg \ {s},
   sess |-> [ss EXCEPT ![s].isTranscribing = FALSE, ![s].audioBuffer = <<>>,
                       ![s].audioBufferNull = TRUE]]

\* cleanupSession on the registry reg and the session objects ss: a session
\* that is registered is cleared and deleted, one that is not is left alone
cleanupSession(reg, ss, s) ==
  IF s \in reg
  THEN [sessions |-> reg \ {s},
        sess |-> [ss EXCEPT ![s].isTranscribing = FALSE, ![s].audioBuffer = <<>>,
                            ![s].audioBufferNull = TRUE]]
  ELSE [sessions |-> reg, sess |-> ss]

\* ws.on('close')
WsClose(s) ==
  /\ phase # "exited"
  /\ sess[s].ws \in {"OPEN", "CLOSING"}
  /\ LET c == cleanupSession(sessions, sess, s) IN
     /\ sess' = [c.sess EXCEPT ![s].ws = "CLOSED"]
     /\ sessions' = c.sessions
  /\ UNCHANGED <<out, hs, convs, msgs, received, dispatched, backendCalls,
                 ttsCalls, nFrames, nCtl, nConns, nRejected, phase>>

\* ws.on('error'): the socket leaves OPEN, the close event follows
WsError(s) ==
  /\ phase # "exited"
  /\ sess[s].ws = "OPEN"
  /\ LET c == cleanupSession(sessions, sess, s) IN
     /\ sess' = [c.sess EXCEPT ![s].ws = "CLOSING"]
     /\ sessions' = c.sessions
  /\ UNCHANGED <<out, hs, convs, msgs, received, dispatched, backendCalls,
                 ttsCalls, nFrames, nCtl, nConns, nRejected, phase>>

\* ------------------------------------------------------- control messages
\* a mutation of the defaulting: an absent value stays absent
OrDefaultAbsent(v, d) == v

\* config.model || 'nova-3', config.language || 'en-US'
OrDefault(v, d) == IF v = "undefined" THEN d ELSE v

\* startTranscription: no await inside, runs to completion
startTranscription(st, s, config) ==
  IF s \notin sessions THEN st
  ELSE LET ss == [st.sess EXCEPT ![s].isTranscribing = TRUE,
                                 ![s].model = OrDefault(config.model, "nova-3"),
                                 ![s].language = OrDefault(config.language, "en-US")]
       IN [sess |-> ss, out |-> sendMessage(st.out, s, "status", "started", 0)]

\* stopTranscription with the buffer left as it is
stopTranscriptionKeepsBuffer(st, s) ==
  IF s \notin sessions THEN st
  ELSE LET ss == [st.sess EXCEPT ![s].isTranscribing = FALSE]
       IN [sess |-> ss, out |-> sendMessage(st.out, s, "status", "stopped", 0)]

\* stopTranscription: no await inside, runs to completion
stopTranscription(st, s) ==
  IF s \notin sessions THEN st
  ELSE LET ss == [st.sess EXCEPT ![s].isTranscribing = FALSE,
                                 ![s].audioBuffer = <<>>]
       IN [sess |-> ss, out |-> sendMessage(st.out, s, "status", "stopped", 0)]

\* handleControlMessage with a default branch that ignores the message
handleControlMessageSilentDefault(st, s, message) ==
  IF s \notin sessions THEN st
  ELSE CASE message.action = "start" -> startTranscription(st, s, message)
         [] message.action = "stop" -> stopTranscription(st, s)
         [] message.action = "set_thread" ->
              [st EXCEPT !.sess[s].threadId = message.threadId]
         [] OTHER -> st

\* handleControlMessage: the switch on message.action.  A JSON value that
\* is not an object has no action property and takes the default branch.
handleControlMessage(st, s, message) ==
  IF s \notin sessions THEN st
  ELSE CASE message.action = "start" -> startTranscription(st, s, message)
         [] message.action = "stop" -> stopTranscription(st, s)
         [] message.action = "set_thread" ->
              [st EXCEPT !.sess[s].threadId = message.threadId]
         [] OTHER ->
              [st EXCEPT !.out = sendMessage(st.out, s, "error", "Unknown action", 0)]

\* ws.on('message') for a text frame: JSON.parse, handleControlMessage, and
\* the catch that answers a throw (a parse error, or reading .action of
\* null) with an error frame.  received and dispatched record the frames
\* accepted and the chunks handed to STT since the buffer was last cleared by
\* a stop.
OnTextMessage(s, m) ==
  /\ phase # "exited"
  /\ sess[s].ws = "OPEN"
  /\ nCtl < StopStartCtl
  /\ nCtl' = nCtl + 1
  /\ LET st == [sess |-> sess, out |-> out]
         throws == m.json = "invalid" \/ (m.json = "null" /\ s \in sessions)
         res == IF throws
                THEN [st EXCEPT !.out = sendMessage(out, s, "error",
                                                    "Failed to process message", 0)]
                ELSE handleControlMessage(st, s, m)
         stops == ~throws /\ s \in sessions /\ m.action = "stop"
     IN /\ sess' = res.sess
        /\ out' = res.out
        /\ received' = IF stops THEN [received EXCEPT ![s] = <<>>] ELSE received
        /\ dispatched' = IF stops THEN [dispatched EXCEPT ![s] = <<>>] ELSE dispatched
  /\ UNCHANGED <<sessions, hs, convs, msgs, backendCalls, ttsCalls, nFrames, nConns, nRejected, phase>>

\* ------------------------------------------------------- audio ingestion
\* a mutation of the threshold test: a buffer of exactly 3200 bytes stays
ThresholdReachedStrict(buf) == BufLen(buf) > ChunkThreshold

\* session.audioBuffer.length >= 3200
ThresholdReached(buf) == BufLen(buf) >= ChunkThreshold

\* handleAudioData without the reset after the dispatch
ResetBufferSkipped(ss, s) == ss

\* the tail of handleAudioData after `await processAudioChunk` has returned:
\* the buffer of the session object the handler holds is reset
ResetBuffer(ss, s) ==
  [ss EXCEPT ![s].audioBuffer = <<>>, ![s].audioBufferNull = FALSE]

\* ws.on('message') for a binary frame: handleAudioData up to its await.
\* Below the threshold the handler completes; at or above it the whole
\* buffer is handed to processAudioChunk, which calls simulateSTT and
\* suspends (pc = "stt").
OnAudioData(s, len) ==
  /\ phase # "exited"
  /\ sess[s].ws = "OPEN"
  /\ nFrames < MaxFrames
  /\ nFrames' = nFrames + 1
  /\ LET f == nFrames + 1
         buf == Append(sess[s].audioBuffer, [id |-> f, len |-> len])
     IN IF s \notin sessions \/ ~sess[s].isTranscribing
        THEN UNCHANGED <<sess, hs, received, dispatched>>
        ELSE /\ sess' = [sess EXCEPT ![s].audioBuffer = buf]
             /\ received' = [received EXCEPT ![s] = Append(@, [id |-> f, len |-> len])]
             /\ IF ThresholdReached(buf)
                THEN /\ dispatched' = [dispatched EXCEPT ![s] = Append(@, buf)]
                     /\ hs' = [hs EXCEPT ![f] = [IdleHandler EXCEPT !.pc = "stt", !.s = s,
                                                                 !.chunk = buf]]
                ELSE UNCHANGED <<hs, dispatched>>
  /\ UNCHANGED <<sessions, out, convs, msgs, backendCalls, ttsCalls, nCtl, nConns, nRejected, phase>>

\* ------------------------------------------------------ AI turn pipeline
\* the handler of frame h returns through processAudioChunk to
\* handleAudioData, which resets the buffer
Finish(h, ss) ==
  /\ sess' = ResetBuffer(ss, hs[h].s)
  /\ hs' = [hs EXCEPT ![h] = IdleHandler]

\* the catch of processTranscriptWithAI
\* a mutation of the catch block: the failure terminates the connection
CatchTerminatesConnection(h) ==
  /\ out' = sendMessage(out, hs[h].s, "error", "Failed to process with AI", h)
  /\ sess' = [ResetBuffer(sess, hs[h].s) EXCEPT ![hs[h].s].ws = "CLOSED"]
  /\ hs' = [hs EXCEPT ![h] = IdleHandler]

Catch(h) ==
  /\ out' = sendMessage(out, hs[h].s, "error", "Failed to process with AI", h)
  /\ Finish(h, sess)

\* generateAndSendTTS up to `await simulateTTS`; rec is the handler's record
\* with the reply text it passes
StartTTS(h, rec) ==
  IF hs[h].s \notin sessions
  THEN /\ Finish(h, sess)
       /\ UNCHANGED ttsCalls
  ELSE /\ ttsCalls' = ttsCalls \cup {h}
       /\ hs' = [hs EXCEPT ![h] = [rec EXCEPT !.pc = "tts"]]
       /\ UNCHANGED sess

\* aiChatService.sendChatMessage(userId, finalThreadId, transcript) is called
\* a mutation of CallBackend: the thread id is not passed on
CallBackendDropsThread(h, tid) ==
  backendCalls' = backendCalls \cup {[turn |-> h, threadId |-> NoThread]}

\* a mutation of CallBackend: the thread id is read from the session again
CallBackendRereadsSession(h, tid) ==
  backendCalls' = backendCalls \cup {[turn |-> h, threadId |-> sess[hs[h].s].threadId]}

CallBackend(h, tid) ==
  backendCalls' = backendCalls \cup {[turn |-> h, threadId |-> tid]}

\* a mutation of processAudioChunk: an interim result starts the AI turn too
SttDoneInterimStartsTurn(h, interim, final) ==
  /\ phase # "exited"
  /\ hs[h].pc = "stt"
  /\ LET s == hs[h].s
         o1 == IF interim THEN sendMessage(out, s, "interim_transcript", "transcript", h)
               ELSE out
         o2 == IF final THEN sendMessage(o1, s, "final_transcript", "transcript", h)
               ELSE o1
         tid == sess[s].threadId
     IN IF ~(final \/ interim) \/ s \notin sessions
        THEN /\ out' = o2
             /\ Finish(h, sess)
        ELSE /\ out' = sendMessage(o2, s, "llm_processing", "Processing with AI...", h)
             /\ IF Falsy(tid)
                THEN /\ sess' = [sess EXCEPT ![s].threadId = generateThreadId(h)]
                     /\ hs' = [hs EXCEPT ![h].pc = "create",
                                         ![h].threadId = generateThreadId(h)]
                ELSE /\ hs' = [hs EXCEPT ![h].pc = "find", ![h].threadId = tid]
                     /\ UNCHANGED sess
  /\ UNCHANGED <<sessions, convs, msgs, received, dispatched, backendCalls,
                 ttsCalls, nFrames, nCtl, nConns, nRejected, phase>>

\* simulateSTT has resolved: processAudioChunk forwards the result and, for a
\* final one, processTranscriptWithAI runs up to its first await.  userId
\* comes from a verified token and is always set, so `if (userId)` holds.
SttDone(h, interim, final) ==
  /\ phase # "exited"
  /\ hs[h].pc = "stt"
  /\ LET s == hs[h].s
         o1 == IF interim THEN sendMessage(out, s, "interim_transcript", "transcript", h)
               ELSE out
         o2 == IF final THEN sendMessage(o1, s, "final_transcript", "transcript", h)
               ELSE o1
         tid == sess[s].threadId
     IN IF ~final \/ s \notin sessions
        THEN /\ out' = o2
             /\ Finish(h, sess)
        ELSE /\ out' = sendMessage(o2, s, "llm_processing", "Processing with AI...", h)
             /\ IF Falsy(tid)
                THEN /\ sess' = [sess EXCEPT ![s].threadId = generateThreadId(h)]
                     /\ hs' = [hs EXCEPT ![h].pc = "create",
                                         ![h].threadId = generateThreadId(h)]
                ELSE /\ hs' = [hs EXCEPT ![h].pc = "find", ![h].threadId = tid]
                     /\ UNCHANGED sess
  /\ UNCHANGED <<sessions, convs, msgs, received, dispatched, backendCalls,
                 ttsCalls, nFrames, nCtl, nConns, nRejected, phase>>

\* ChatConversation.create has settled
CreateDone(h, ok) ==
  /\ phase # "exited"
  /\ hs[h].pc = "create"
  /\ LET s == hs[h].s
         tid == hs[h].threadId
     IN IF ok
        THEN /\ convs' = [t \in DOMAIN convs \cup {tid} |->
                           IF t = tid THEN [userId |-> sess[s].userId, messageCount |-> 0]
                           ELSE convs[t]]
             /\ sess' = [sess EXCEPT ![s].conversationId = tid]
             /\ hs' = [hs EXCEPT ![h].pc = "saveUser", ![h].conv = tid,
                                 ![h].convCount = 0]
             /\ UNCHANGED out
        ELSE /\ Catch(h)
             /\ UNCHANGED convs
  /\ UNCHANGED <<sessions, msgs, received, dispatched, backendCalls,
                 ttsCalls, nFrames, nCtl, nConns, nRejected, phase>>

\* ChatConversation.findOne({threadId, userId}) has settled
FindDone(h, ok) ==
  /\ phase # "exited"
  /\ hs[h].pc = "find"
  /\ LET s == hs[h].s
         tid == hs[h].threadId
         found == tid \in DOMAIN convs /\ convs[tid].userId = sess[s].userId
     IN IF ok
        THEN /\ IF found
                THEN /\ hs' = [hs EXCEPT ![h].pc = "saveUser", ![h].conv = tid,
                                         ![h].convCount = convs[tid].messageCount]
                     /\ UNCHANGED backendCalls
                ELSE /\ hs' = [hs EXCEPT ![h].pc = "backend"]
                     /\ CallBackend(h, tid)
             /\ UNCHANGED <<sess, out>>
        ELSE /\ Catch(h)
             /\ UNCHANGED backendCalls
  /\ UNCHANGED <<sessions, convs, msgs, received, dispatched,
                 ttsCalls, nFrames, nCtl, nConns, nRejected, phase>>

\* ChatMessage.create of the user message has settled
SaveUserDone(h, ok) ==
  /\ phase # "exited"
  /\ hs[h].pc = "saveUser"
  /\ IF ok
     THEN /\ msgs' = msgs \cup {[conv |-> hs[h].conv, threadId |-> hs[h].threadId,
                                  messageType |-> "user", contentType |-> "voice",
                                  content |-> "transcript", turn |-> h]}
          /\ hs' = [hs EXCEPT ![h].pc = "backend"]
          /\ CallBackend(h, hs[h].threadId)
          /\ UNCHANGED <<sess, out>>
     ELSE /\ Catch(h)
          /\ UNCHANGED <<msgs, backendCalls>>
  /\ UNCHANGED <<sessions, convs, received, dispatched,
                 ttsCalls, nFrames, nCtl, nConns, nRejected, phase>>

\* sendChatMessage has resolved.  It catches every failure of the HTTP call
\* (the 30 s timeout included) and returns {success: false, data: null}, for
\* which the caller's reply text is 'No response'.
BackendDone(h, ok, len) ==
  /\ phase # "exited"
  /\ hs[h].pc = "backend"
  /\ out' = sendMessage(out, hs[h].s, "llm_complete", "AI processing complete", h)
  /\ LET rec == [hs[h] EXCEPT !.resp = IF ok THEN "reply" ELSE "No response",
                               !.respLen = IF ok THEN len ELSE NoResponseLen]
     IN IF hs[h].conv # NoThread
        THEN /\ hs' = [hs EXCEPT ![h] = [rec EXCEPT !.pc = "saveAI"]]
             /\ UNCHANGED <<sess, ttsCalls>>
        ELSE StartTTS(h, rec)
  /\ UNCHANGED <<sessions, convs, msgs, received, dispatched, backendCalls,
                 nFrames, nCtl, nConns, nRejected, phase>>

\* ChatMessage.create of the assistant message has settled
SaveAIDone(h, ok) ==
  /\ phase # "exited"
  /\ hs[h].pc = "saveAI"
  /\ IF ok
     THEN /\ msgs' = msgs \cup {[conv |-> hs[h].conv, threadId |-> hs[h].threadId,
                                  messageType |-> "assistant", contentType |-> "text",
                                  content |-> hs[h].resp, turn |-> h]}
          /\ hs' = [hs EXCEPT ![h].pc = "update"]
          /\ UNCHANGED <<sess, out>>
     ELSE /\ Catch(h)
          /\ UNCHANGED msgs
  /\ UNCHANGED <<sessions, convs, received, dispatched, backendCalls,
                 ttsCalls, nFrames, nCtl, nConns, nRejected, phase>>

\* conversation.update has settled: the count written is the count of the
\* instance this handler loaded, plus 2
UpdateDone(h, ok) ==
  /\ phase # "exited"
  /\ hs[h].pc = "update"
  /\ IF ok
     THEN /\ convs' = [convs EXCEPT ![hs[h].conv].messageCount = hs[h].convCount + 2]
          /\ StartTTS(h, hs[h])
          /\ UNCHANGED out
     ELSE /\ Catch(h)
          /\ UNCHANGED <<convs, ttsCalls>>
  /\ UNCHANGED <<sessions, msgs, received, dispatched, backendCalls,
                 nFrames, nCtl, nConns, nRejected, phase>>

\* a mutation of generateAndSendTTS: llm_complete is written after the chunks
TtsDoneThenComplete(h) ==
  /\ phase # "exited"
  /\ hs[h].pc = "tts"
  /\ out' = sendMessage(sendChunks(out, hs[h].s, h, TotalChunks(hs[h].respLen)),
                        hs[h].s, "llm_complete", "AI processing complete", h)
  /\ Finish(h, sess)
  /\ UNCHANGED <<sessions, convs, msgs, received, dispatched, backendCalls,
                 ttsCalls, nFrames, nCtl, nConns, nRejected, phase>>

\* simulateTTS has resolved: the chunks are written in a loop, each one
\* only if the socket is OPEN
TtsDone(h) ==
  /\ phase # "exited"
  /\ hs[h].pc = "tts"
  /\ out' = sendChunks(out, hs[h].s, h, TotalChunks(hs[h].respLen))
  /\ Finish(h, sess)
  /\ UNCHANGED <<sessions, convs, msgs, received, dispatched, backendCalls,
                 ttsCalls, nFrames, nCtl, nConns, nRejected, phase>>

\* ---------------------------------------------------------------- shutdown
\* gracefulShutdown (server.js), on SIGTERM or SIGINT: server.close stops
\* the listener and the 30 s timer is armed; the session registry is not
\* read and no connection is closed
gracefulShutdown ==
  /\ phase = "running"
  /\ phase' = "shutting"
  /\ UNCHANGED <<sessions, sess, out, hs, convs, msgs, received, dispatched,
                 backendCalls, ttsCalls, nFrames, nCtl, nConns, nRejected>>

\* the callback of server.close: every connection has ended, the database
\* is closed and the process exits
ServerClosed ==
  /\ phase = "shutting"
  /\ \A s \in SessionIds : sess[s].ws \in {"NONE", "CLOSED"}
  /\ phase' = "exited"
  /\ UNCHANGED <<sessions, sess, out, hs, convs, msgs, received, dispatched,
                 backendCalls, ttsCalls, nFrames, nCtl, nConns, nRejected>>

\* the 30 s timer: process.exit(1), whatever is still open or in flight
ForceExit ==
  /\ phase = "shutting"
  /\ phase' = "exited"
  /\ UNCHANGED <<sessions, sess, out, hs, convs, msgs, received, dispatched,
                 backendCalls, ttsCalls, nFrames, nCtl, nConns, nRejected>>

\* ------------------------------------------------------------------- Next
Next ==
  \/ nConns < MaxSessions /\ \E u \in Users : Connection(u)
  \/ \E s \in SessionIds : WsClose(s)
  \/ \E s \in SessionIds : WsError(s)
  \/ nCtl < MaxCtl /\ \E s \in SessionIds, m \in TextFrames : OnTextMessage(s, m)
  \/ \E s \in SessionIds, len \in FrameSizes : OnAudioData(s, len)
  \/ \E h \in FrameIds, interim \in BOOLEAN, final \in BOOLEAN : SttDone(h, interim, final)
  \/ \E h \in FrameIds, ok \in BOOLEAN : CreateDone(h, ok)
  \/ \E h \in FrameIds, ok \in BOOLEAN : FindDone(h, ok)
  \/ \E h \in FrameIds, ok \in BOOLEAN : SaveUserDone(h, ok)
  \/ \E h \in FrameIds, ok \in BOOLEAN, len \in ReplyLens : BackendDone(h, ok, len)
  \/ \E h \in FrameIds, ok \in BOOLEAN : SaveAIDone(h, ok)
  \/ \E h \in FrameIds, ok \in BOOLEAN : UpdateDone(h, ok)
  \/ \E h \in FrameIds : TtsDone(h)

Spec == Init /\ [][Next]_vars

\* the registry specification: upgrade requests with and without a valid
\* token, RegSessions connections, RegFrames audio frames
NextRegistry ==
  \/ gracefulShutdown
  \/ ServerClosed
  \/ ForceExit
  \/ \E token \in Tokens : Upgrade(token)
  \/ \E s \in SessionIds : WsClose(s)
  \/ \E s \in SessionIds : WsError(s)
  \/ nCtl < MaxCtl /\ \E s \in SessionIds, m \in TextFrames : OnTextMessage(s, m)
  \/ nFrames < RegFrames /\ \E s \in SessionIds, len \in FrameSizes : OnAudioData(s, len)
  \/ \E h \in FrameIds, interim \in BOOLEAN, final \in BOOLEAN : SttDone(h, interim, final)
  \/ \E h \in FrameIds, ok \in BOOLEAN : CreateDone(h, ok)
  \/ \E h \in FrameIds, ok \in BOOLEAN : FindDone(h, ok)
  \/ \E h \in FrameIds, ok \in BOOLEAN : SaveUserDone(h, ok)
  \/ \E h \in FrameIds, ok \in BOOLEAN, len \in ReplyLens : BackendDone(h, ok, len)
  \/ \E h \in FrameIds, ok \in BOOLEAN : SaveAIDone(h, ok)
  \/ \E h \in FrameIds, ok \in BOOLEAN : UpdateDone(h, ok)
  \/ \E h \in FrameIds : TtsDone(h)

SpecRegistry == Init /\ [][NextRegistry]_vars

\* the stop/start specification: one connection that is not closed, control
\* frames that are start or stop, up to StopStartCtl of them
StartStopFrames ==
  {m \in TextFrames : m.json = "object" /\ m.action \in {"start", "stop"}}

NextStopStart ==
  \/ nConns < MaxSessions /\ \E u \in Users : Connection(u)
  \/ \E s \in SessionIds, m \in StartStopFrames : OnTextMessage(s, m)
  \/ \E s \in SessionIds, len \in FrameSizes : OnAudioData(s, len)
  \/ \E h \in FrameIds, interim \in BOOLEAN, final \in BOOLEAN : SttDone(h, interim, final)
  \/ \E h \in FrameIds, ok \in BOOLEAN : CreateDone(h, ok)
  \/ \E h \in FrameIds, ok \in BOOLEAN : FindDone(h, ok)
  \/ \E h \in FrameIds, ok \in BOOLEAN : SaveUserDone(h, ok)
  \/ \E h \in FrameIds, ok \in BOOLEAN, len \in ReplyLens : BackendDone(h, ok, len)
  \/ \E h \in FrameIds, ok \in BOOLEAN : SaveAIDone(h, ok)
  \/ \E h \in FrameIds, ok \in BOOLEAN : UpdateDone(h, ok)
  \/ \E h \in FrameIds : TtsDone(h)

SpecStopStart == Init /\ [][NextStopStart]_vars

\* ----------------------------------------------------------- properties
\* processTranscriptWithAI of frame h has begun and has not returned
InPipelinePc(pc) ==
  pc \in {"create", "find", "saveUser", "backend", "saveAI", "update", "tts"}

InPipeline(h) == InPipelinePc(hs[h].pc)

\* no handler of session s is suspended
Quiescent(s) == \A h \in FrameIds : hs[h].s = s => hs[h].pc = "idle"

\* the bytes of a sequence of chunks, in order
RECURSIVE Flatten(_)
Flatten(chunks) ==
  IF chunks = <<>> THEN <<>> ELSE Head(chunks) \o Flatten(Tail(chunks))

RECURSIVE CountType(_, _)
CountType(frames, type) ==
  IF frames = <<>> THEN 0
  ELSE (IF Head(frames).type = type THEN 1 ELSE 0) + CountType(Tail(frames), type)

\* C1: within one session the pipeline of a finalized transcript neither
\* begins nor writes a frame while the pipeline of another finalized
\* transcript of that session is in progress.
C1_PipelinesDoNotInterleave ==
  [][\A h \in FrameIds :
       (hs'[h] # hs[h] /\ (InPipelinePc(hs[h].pc) \/ InPipelinePc(hs'[h].pc)))
       => \A h2 \in FrameIds \ {h} :
            InPipelinePc(hs[h2].pc)
            => hs[h2].s \notin {hs[h].s, hs'[h].s}]_vars

\* C2: when no chunk processing is in progress, the chunks handed to STT
\* followed by the buffer are exactly the frames received since the buffer
\* was last cleared.
C2_ChunksPlusBufferEqualReceived ==
  \A s \in sessions :
    Quiescent(s) => Flatten(dispatched[s]) \o sess[s].audioBuffer = received[s]

\* the handler of frame h returns in this step
Returns(h) == hs[h].pc # "idle" /\ hs'[h].pc = "idle"

\* C3 (as claimed): when the handler that dispatched a chunk returns, the
\* buffer holds the accumulated length modulo the threshold.
C3_RemainderModuloThreshold ==
  [][\A h \in FrameIds :
       Returns(h) => BufLen(sess'[hs[h].s].audioBuffer)
                       = BufLen(hs[h].chunk) % ChunkThreshold]_vars

\* C3 (amended): a frame that brings the buffer to the threshold or beyond
\* makes its handler hand the whole buffer to STT exactly once, and when that
\* handler returns the buffer is empty (length 0, whatever the accumulated
\* length); a frame that leaves the buffer below the threshold dispatches
\* nothing and its bytes are in the buffer when its handler returns.
C3_WholeBufferDispatchedThenEmpty ==
  [][/\ \A h \in FrameIds : Returns(h) => sess'[hs[h].s].audioBuffer = <<>>
     /\ \A s \in SessionIds :
          (nFrames' = nFrames + 1 /\ received'[s] # received[s])
          => LET buf == sess'[s].audioBuffer
                 f == nFrames'
             IN /\ buf = Append(sess[s].audioBuffer, received'[s][Len(received'[s])])
                /\ IF BufLen(buf) >= ChunkThreshold
                   THEN /\ dispatched'[s] = Append(dispatched[s], buf)
                        /\ hs'[f].pc = "stt" /\ hs'[f].chunk = buf
                        /\ \A h \in FrameIds \ {f} : hs'[h] = hs[h]
                   ELSE dispatched' = dispatched /\ hs' = hs]_vars

\* C3 witness: a chunk whose length is no multiple of the threshold was
\* dispatched, its handler has returned and the buffer is empty
C3_Witness ==
  \E s \in sessions :
    /\ Quiescent(s) /\ sess[s].isTranscribing
    /\ dispatched[s] # <<>>
    /\ BufLen(dispatched[s][1]) % ChunkThreshold # 0
    /\ sess[s].audioBuffer = <<>>

\* C4: a turn whose backend call failed has exactly one error frame (the
\* socket being open).
C4_BackendFailureEmitsOneError ==
  \A h \in FrameIds :
    (hs[h].resp = "No response" /\ sess[hs[h].s].ws = "OPEN")
    => CountType(out[hs[h].s][h], "error") = 1

\* C5: a turn whose thread has no conversation is aborted: no handler is past
\* thread resolution without a conversation, and the backend is never called
\* with a thread that has no conversation.
C5_MissingConversationAbortsTurn ==
  /\ \A h \in FrameIds :
       hs[h].pc \in {"saveUser", "backend", "saveAI", "update", "tts"}
       => hs[h].conv # NoThread
  /\ \A c \in backendCalls : c.threadId \in DOMAIN convs

\* C6: a threadId that has a value is never changed.
C6_ThreadIdNeverReassigned ==
  [][\A s \in SessionIds :
       ~Falsy(sess[s].threadId) => sess'[s].threadId = sess[s].threadId]_vars

MalformedFrames ==
  {m \in TextFrames : \/ m.json # "object"
                      \/ (m.action = "set_thread" /\ m.threadId = UndefinedThread)}

\* C7: a malformed control frame is answered with one error frame and
\* changes no session field; the session stays registered.
C7_MalformedRejectedStateKept ==
  [][\A s \in SessionIds, m \in MalformedFrames :
       OnTextMessage(s, m)
       => /\ sess' = sess
          /\ s \in sessions'
          /\ CountType(out'[s][0], "error") = CountType(out[s][0], "error") + 1]_vars

UnknownActionFrames ==
  {m \in TextFrames : m.json = "object" /\ m.action \notin {"start", "stop", "set_thread"}}

\* C8: a control frame with an unknown action changes no session field and
\* writes exactly one frame, of type error.
C8_UnknownActionOnlyOneError ==
  [][\A s \in SessionIds, m \in UnknownActionFrames :
       OnTextMessage(s, m)
       => /\ sess' = sess
          /\ sessions' = sessions
          /\ out' = [out EXCEPT ![s][0] = Append(@, Frame("error", "Unknown action", 0, 0))]]_vars

\* C8 witness: a transcribing session whose last frame outside a turn is the
\* answer to an unknown action
C8_Witness ==
  \E s \in sessions :
    /\ sess[s].isTranscribing
    /\ out[s][0][Len(out[s][0])].text = "Unknown action"

\* C9: an audio frame that arrives while the session is not transcribing
\* finds the buffer empty and changes nothing: no session field, no chunk
\* handed to STT, no handler suspended, no frame written.
C9_AudioIgnoredWhenNotTranscribing ==
  [][\A s \in SessionIds, len \in FrameSizes :
       (OnAudioData(s, len) /\ ~sess[s].isTranscribing)
       => /\ sess[s].audioBuffer = <<>>
          /\ sess' = sess /\ out' = out /\ hs' = hs
          /\ dispatched' = dispatched /\ received' = received]_vars

\* C9 witness: an audio frame has arrived before the first control message,
\* hence before any start, and the buffer is empty
C9_Witness ==
  /\ nFrames > 0 /\ nCtl = 0
  /\ \E s \in sessions : ~sess[s].isTranscribing /\ sess[s].audioBuffer = <<>>

\* C10: whenever no turn is in progress on a conversation, its messageCount
\* is the number of messages persisted for it.
C10_CountMatchesMessages ==
  \A c \in DOMAIN convs :
    (\A h \in FrameIds : InPipeline(h) => hs[h].threadId # c)
    => convs[c].messageCount = Cardinality({m \in msgs : m.conv = c})

\* the messages the store holds for turn h
TurnMessages(h) == {m \in msgs : m.turn = h}

\* C11: when the last store step of a turn whose steps all succeeded
\* settles, the store holds exactly two messages of the turn in the
\* conversation the turn resolved (the user's voice transcript and the
\* assistant's text reply), the conversation's messageCount is greater by
\* exactly 2 than before, and a turn that generated its thread id holds the
\* one conversation created under that id.
C11_TurnPersistsTwoAndCountsTwo ==
  [][\A h \in FrameIds :
       (UpdateDone(h, TRUE) /\ hs[h].resp = "reply") =>
         LET c == hs[h].conv IN
         /\ Cardinality(TurnMessages(h)) = 2
         /\ \E m \in TurnMessages(h) :
              m.conv = c /\ m.messageType = "user" /\ m.contentType = "voice"
         /\ \E m \in TurnMessages(h) :
              m.conv = c /\ m.messageType = "assistant" /\ m.contentType = "text"
         /\ convs'[c].messageCount = convs[c].messageCount + 2
         /\ (hs[h].threadId = generateThreadId(h) => c = generateThreadId(h))]_vars

\* thread t names a conversation of the store owned by user u
Owned(cv, t, u) == t \in DOMAIN cv /\ cv[t].userId = u

\* what turn h, run on the existing conversation t, has done so far: no
\* conversation under the id the turn would generate, its messages (the user
\* message once the backend is called, the assistant message once the count
\* is updated) in conversation t, its backend call on thread t
TurnOnExisting(h, t, hv, mv, bv, cv) ==
  LET mine == {m \in mv : m.turn = h} IN
  /\ generateThreadId(h) \notin DOMAIN cv
  /\ \A m \in mine : m.conv = t /\ m.threadId = t
  /\ \A c \in bv : c.turn = h => c.threadId = t
  /\ hv[h].pc \in {"backend", "saveAI", "update", "tts"} =>
       /\ \E m \in mine : m.messageType = "user"
       /\ [turn |-> h, threadId |-> t] \in bv
  /\ hv[h].pc \in {"update", "tts"} => \E m \in mine : m.messageType = "assistant"

\* C12: a turn that begins while the session's threadId, set by set_thread,
\* names a conversation owned by the session's user looks that conversation
\* up instead of creating one; from then on the turn creates no
\* conversation, its messages are persisted in that conversation and that
\* threadId is the one passed to the backend.
C12_SetThreadTurnUsesExistingConversation ==
  [][\A h \in FrameIds :
       /\ (/\ hs[h].pc = "stt" /\ InPipelinePc(hs'[h].pc)
           /\ Owned(convs, sess[hs[h].s].threadId, sess[hs[h].s].userId))
          => /\ hs'[h].pc = "find"
             /\ hs'[h].threadId = sess[hs[h].s].threadId
             /\ convs' = convs
       /\ (/\ FindDone(h, TRUE)
           /\ Owned(convs, hs[h].threadId, sess[hs[h].s].userId))
          => hs'[h].pc = "saveUser" /\ hs'[h].conv = hs[h].threadId
       /\ (/\ InPipelinePc(hs'[h].pc)
           /\ hs'[h].threadId \in ThreadInputs
           /\ Owned(convs', hs'[h].threadId, sess'[hs'[h].s].userId))
          => TurnOnExisting(h, hs'[h].threadId, hs', msgs', backendCalls', convs')]_vars

\* a turn on the existing conversation 1 has persisted both messages and is
\* synthesizing the reply
C12_Witness ==
  \E h \in FrameIds :
    /\ hs[h].pc = "tts" /\ hs[h].threadId = 1 /\ hs[h].conv = 1
    /\ sess[hs[h].s].threadId = 1
    /\ Cardinality({m \in TurnMessages(h) : m.conv = 1}) = 2
    /\ [turn |-> h, threadId |-> 1] \in backendCalls

\* the socket of session s has been closed and cleanupSession has run
Closed(s) == sess[s].ws \in {"CLOSING", "CLOSED"}

\* C13: once the connection of a session is closed and cleanupSession has
\* run, a step of a turn of that session that was in flight writes nothing
\* to the Conversation Store, calls neither the backend nor the synthesizer
\* and writes no field of the session's state.
C13_CloseCancelsTurn ==
  [][\A h \in FrameIds :
       (InPipeline(h) /\ Closed(hs[h].s) /\ hs'[h] # hs[h]) =>
         /\ msgs' = msgs
         /\ convs' = convs
         /\ backendCalls' = backendCalls
         /\ ttsCalls' = ttsCalls
         /\ sess' = sess]_vars

\* C14: a step that writes an outbound frame, JSON or binary, on the
\* connection of session s finds the connection open and leaves it open: no
\* frame is written before the connection is accepted or after it has left
\* the open state.
C14_NoFrameUnlessOpen ==
  [][\A s \in SessionIds :
       out'[s] # out[s] =>
         /\ sess'[s].ws = "OPEN"
         /\ sess[s].ws \in {"NONE", "OPEN"}]_vars

\* the connection was closed while a turn was waiting for the backend; the
\* turn went on and its llm_complete frame was not written
C14_Witness ==
  \E h \in FrameIds :
    /\ hs[h].pc \in {"saveAI", "update"}
    /\ Closed(hs[h].s)
    /\ CountType(out[hs[h].s][h], "llm_processing") = 1
    /\ CountType(out[hs[h].s][h], "llm_complete") = 0

\* C15: in every reachable state a session is in the registry exactly when
\* its connection is open; a session enters the registry in the step that
\* accepts its connection, and a session that has left the registry never
\* enters it again.
C15_RegisteredIffOpen ==
  /\ [](\A s \in SessionIds : s \in sessions <=> sess[s].ws = "OPEN")
  /\ [][\A s \in SessionIds :
          /\ (s \notin sessions /\ s \in sessions') => sess[s].ws = "NONE"
          /\ (s \notin sessions /\ sess[s].ws # "NONE") => s \notin sessions']_vars

\* one connection has been closed and its session removed while the session
\* of another connection is open and registered
C15_Witness ==
  \E s \in SessionIds, r \in SessionIds :
    /\ Closed(s) /\ s \notin sessions
    /\ sess[r].ws = "OPEN" /\ r \in sessions

\* C16: cleanupSession applied twice to a session gives the state it gives
\* applied once: the session is absent from the registry and every other
\* session and registry entry is as it was.  The close event that follows an
\* error event, whose handler has already cleaned up, changes nothing but
\* the socket's state.
C16_CleanupIdempotent ==
  /\ [](\A s \in SessionIds :
         LET once == cleanupSession(sessions, sess, s)
             twice == cleanupSession(once.sessions, once.sess, s)
         IN /\ twice = once
            /\ s \notin once.sessions
            /\ \A r \in SessionIds \ {s} :
                 /\ once.sess[r] = sess[r]
                 /\ r \in once.sessions <=> r \in sessions)
  /\ [][\A s \in SessionIds :
          (WsClose(s) /\ sess[s].ws = "CLOSING") =>
            /\ sessions' = sessions
            /\ sess' = [sess EXCEPT ![s].ws = "CLOSED"]]_vars

\* the error handler of one session has cleaned up and its close event is
\* pending, while another session is registered and transcribing
C16_Witness ==
  \E s \in SessionIds, r \in SessionIds :
    /\ sess[s].ws = "CLOSING" /\ s \notin sessions /\ sess[s].audioBufferNull
    /\ r \in sessions /\ sess[r].isTranscribing

C18_ConnectedIsFirstFrame ==
  /\ [](\A s \in SessionIds :
         IF sess[s].ws = "NONE"
         THEN /\ \A k \in 0..MaxFrames : out[s][k] = <<>>
              /\ received[s] = <<>>
              /\ \A h \in FrameIds : hs[h].s # s
         ELSE /\ out[s][0] # <<>>
              /\ Head(out[s][0]).type = "connected")
  /\ [][\A s \in SessionIds :
          /\ (out[s][0] = <<>> /\ out'[s][0] # <<>>) =>
               /\ s \in sessions'
               /\ out'[s][0] = <<Frame("connected", "connected", 0, 0)>>
               /\ \A k \in 1..MaxFrames : out[s][k] = <<>>
          /\ \A m \in TextFrames :
               OnTextMessage(s, m) => Head(out[s][0]).type = "connected"
          /\ \A len \in FrameSizes :
               OnAudioData(s, len) => Head(out[s][0]).type = "connected"]_vars

\* a connection has been acknowledged and has then processed a control
\* frame and an audio frame
C18_Witness ==
  \E s \in SessionIds :
    /\ Len(out[s][0]) >= 2
    /\ Head(out[s][0]).type = "connected"
    /\ received[s] # <<>>

\* a step in which something fails: a control frame that cannot be parsed
\* or handled, a store operation that rejects, a backend call that fails
FailureStep ==
  \/ \E s \in SessionIds, m \in MalformedFrames \cup UnknownActionFrames :
       OnTextMessage(s, m)
  \/ \E h \in FrameIds :
       \/ CreateDone(h, FALSE)
       \/ FindDone(h, FALSE)
       \/ SaveUserDone(h, FALSE)
       \/ \E len \in ReplyLens : BackendDone(h, FALSE, len)
       \/ SaveAIDone(h, FALSE)
       \/ UpdateDone(h, FALSE)

\* C19: a step in which control handling or a pipeline step fails closes no
\* connection, removes no session from the registry and leaves every
\* session's transcribing flag as it was, so the session goes on accepting
\* control and audio frames.
C19_FailureKeepsSessionOpen ==
  [][FailureStep =>
       /\ sessions' = sessions
       /\ \A s \in SessionIds :
            /\ sess'[s].ws = sess[s].ws
            /\ sess'[s].isTranscribing = sess[s].isTranscribing]_vars

\* the first turn ended in a failure that was reported; the session is still
\* open and registered and a later turn has reached synthesis
C19_Witness ==
  \E s \in sessions :
    /\ sess[s].ws = "OPEN"
    /\ CountType(out[s][1], "error") = 1
    /\ hs[1].pc = "idle"
    /\ hs[2].pc = "tts" /\ hs[2].s = s

\* C20: a step in which one of the pipeline steps of a turn fails (thread
\* resolution, persisting the user message, the backend call, persisting
\* the assistant message, the count update) writes one frame of type error
\* for that turn on the turn's connection when it is open.
C20_PipelineFailureEmitsError ==
  [][\A h \in FrameIds :
       (/\ InPipeline(h)
        /\ sess[hs[h].s].ws = "OPEN"
        /\ \/ CreateDone(h, FALSE)
           \/ FindDone(h, FALSE)
           \/ SaveUserDone(h, FALSE)
           \/ \E len \in ReplyLens : BackendDone(h, FALSE, len)
           \/ SaveAIDone(h, FALSE)
           \/ UpdateDone(h, FALSE))
       => CountType(out'[hs[h].s][h], "error")
            = CountType(out[hs[h].s][h], "error") + 1]_vars

\* C21: a session that is transcribing is not stalled by a provider that
\* never finalizes: once MaxFrames chunks have been dispatched since the
\* start and every one of them has been answered, a finalization has
\* occurred (a final_transcript frame has been written for one of them).
C21_NonFinalizingProviderIsCutOff ==
  \A s \in sessions :
    (/\ sess[s].isTranscribing
     /\ Len(dispatched[s]) = MaxFrames
     /\ Quiescent(s)
     /\ \A h \in FrameIds : hs[h].pc = "idle")
    => \E k \in FrameIds : CountType(out[s][k], "final_transcript") >= 1

\* C22: when the STT result of a chunk of a registered session arrives, a
\* result marked final starts the AI turn of that chunk, once (the handler
\* enters the pipeline and one llm_processing frame is written), and a
\* result that is not final starts none: the handler returns, nothing is
\* stored or called, and the only frame written is interim_transcript, when
\* the result is interim.  A handler that is in the pipeline or has returned
\* never waits for an STT result again.
C22_TurnStartedOncePerFinal ==
  [][\A h \in FrameIds :
       /\ \A interim \in BOOLEAN, final \in BOOLEAN :
            (SttDone(h, interim, final) /\ hs[h].s \in sessions) =>
              LET s == hs[h].s IN
              IF final
              THEN /\ hs'[h].pc \in {"create", "find"}
                   /\ CountType(out'[s][h], "llm_processing") = 1
                   /\ CountType(out'[s][h], "final_transcript") = 1
              ELSE /\ hs'[h].pc = "idle"
                   /\ out'[s][h] = IF interim
                                   THEN <<Frame("interim_transcript", "transcript", h, 0)>>
                                   ELSE <<>>
                   /\ msgs' = msgs /\ convs' = convs
                   /\ backendCalls' = backendCalls /\ ttsCalls' = ttsCalls
       /\ (hs[h].pc # "stt" /\ hs[h].pc # "idle") => hs'[h].pc # "stt"
       /\ (~InPipeline(h) /\ InPipelinePc(hs'[h].pc)) => hs[h].pc = "stt"]_vars

\* one chunk got an interim-only result and no turn, a later chunk a final
\* result and its turn
C22_Witness ==
  \E s \in sessions :
    /\ out[s][1] = <<Frame("interim_transcript", "transcript", 1, 0)>>
    /\ hs[1].pc = "idle"
    /\ InPipeline(2)
    /\ CountType(out[s][2], "llm_processing") = 1
    /\ {c \in backendCalls : c.turn = 1} = {}

\* C23: whenever no handler of a session holds a dispatched chunk (none is
\* suspended), the session's audioBuffer is shorter than the chunk
\* threshold.
C23_BufferBelowThresholdWhenIdle ==
  \A s \in SessionIds :
    Quiescent(s) => BufLen(sess[s].audioBuffer) < ChunkThreshold

\* a chunk has been dispatched and answered, and a later frame is buffered
\* below the threshold
C23_Witness ==
  \E s \in sessions :
    /\ Quiescent(s)
    /\ dispatched[s] # <<>>
    /\ sess[s].audioBuffer # <<>>
    /\ BufLen(sess[s].audioBuffer) < ChunkThreshold

\* C24: after a shutdown signal every registered session is cancelled and
\* its connection closed, so when the process exits, at the end of the grace
\* period at the latest, the registry is empty.
C24_ShutdownEmptiesRegistry ==
  [][(phase # "exited" /\ phase' = "exited") => sessions = {}]_vars

StartFrames == {m \in TextFrames : m.json = "object" /\ m.action = "start"}

\* C25: a start message handled for a registered session, whatever the
\* session's state, sets isTranscribing, sets model and language to the
\* payload's values or to nova-3 and en-US when they are absent, changes no
\* other field of the session (threadId and audioBuffer included) and
\* writes exactly one frame, of type status.
C25_StartSetsDefaultsKeepsRest ==
  [][\A s \in SessionIds, m \in StartFrames :
       (OnTextMessage(s, m) /\ s \in sessions) =>
         /\ sess' = [sess EXCEPT
                       ![s].isTranscribing = TRUE,
                       ![s].model = IF m.model = "undefined" THEN "nova-3" ELSE m.model,
                       ![s].language = IF m.language = "undefined" THEN "en-US"
                                       ELSE m.language]
         /\ out' = [out EXCEPT ![s][0] = Append(@, Frame("status", "started", 0, 0))]]_vars

\* a start without payload was handled while the session was transcribing
\* with audio in its buffer
C25_Witness ==
  \E s \in sessions :
    /\ CountType(out[s][0], "status") = 2
    /\ sess[s].isTranscribing
    /\ sess[s].model = "nova-3" /\ sess[s].language = "en-US"
    /\ sess[s].audioBuffer # <<>>
    /\ nCtl = 2 /\ nFrames = 1

StopFrames == {m \in TextFrames : m.json = "object" /\ m.action = "stop"}

\* C26: a stop message handled for a registered session, whatever the
\* session's state, clears isTranscribing and empties audioBuffer; hence
\* every byte that is in the buffer or in a chunk dispatched since the last
\* stop was received since that stop: nothing buffered before a stop is
\* dispatched after a later start.
C26_StopDiscardsBufferedAudio ==
  /\ [][\A s \in SessionIds, m \in StopFrames :
          (OnTextMessage(s, m) /\ s \in sessions) =>
            /\ ~sess'[s].isTranscribing
            /\ sess'[s].audioBuffer = <<>>]_vars
  /\ [](\A s \in SessionIds :
         LET got == {received[s][i] : i \in DOMAIN received[s]} IN
         /\ \A j \in DOMAIN sess[s].audioBuffer : sess[s].audioBuffer[j] \in got
         /\ \A i \in DOMAIN dispatched[s] :
              \A j \in DOMAIN dispatched[s][i] : dispatched[s][i][j] \in got)

\* frame 1 was buffered and dispatched, then stop and a later start were
\* handled while its handler was suspended; frame 2, received after the
\* start, is alone in the buffer
C26_Witness ==
  \E s \in sessions :
    /\ hs[1].pc # "idle" /\ hs[1].s = s
    /\ hs[1].chunk = <<[id |-> 1, len |-> 4000]>>
    /\ CountType(out[s][0], "status") = 3
    /\ sess[s].isTranscribing
    /\ sess[s].audioBuffer = <<[id |-> 2, len |-> 1600]>>

\* the binary frames of chunks 1..n of turn h, in order
RECURSIVE ChunkFrames(_, _)
ChunkFrames(h, n) ==
  IF n = 0 THEN <<>> ELSE Append(ChunkFrames(h, n - 1), Frame("audio", "pcm", h, n))

\* C27: the audio chunks of a turn are written to the socket in one step,
\* in the order TTS returned them (1, 2, ..., n) and all of them: the step
\* writes nothing for another turn of the session, and the turn had written
\* no audio chunk before.
C27_TurnChunksContiguousInOrder ==
  [][\A s \in SessionIds, h \in FrameIds :
       CountType(out'[s][h], "audio") # CountType(out[s][h], "audio") =>
         /\ CountType(out[s][h], "audio") = 0
         /\ out'[s][h] = out[s][h] \o ChunkFrames(h, TotalChunks(hs[h].respLen))
         /\ \A k \in 0..MaxFrames : k # h => out'[s][k] = out[s][k]]_vars

\* two turns of one session have both streamed their audio chunks
C27_Witness ==
  \E s \in SessionIds :
    /\ \E len \in ReplyLens : CountType(out[s][1], "audio") = TotalChunks(len)
    /\ \E len \in ReplyLens : CountType(out[s][2], "audio") = TotalChunks(len)

\* C28: once a stop has been handled and until a later start is handled,
\* the STT result of a chunk dispatched before the stop writes no
\* final_transcript and no llm_processing frame and starts no AI turn.
C28_NoTurnAfterStop ==
  [][\A h \in FrameIds :
       (/\ hs[h].pc = "stt"
        /\ hs[h].s \in sessions
        /\ ~sess[hs[h].s].isTranscribing
        /\ hs'[h] # hs[h])
       => /\ hs'[h].pc = "idle"
          /\ CountType(out'[hs[h].s][h], "final_transcript") = 0
          /\ CountType(out'[hs[h].s][h], "llm_processing") = 0]_vars

\* the place of a frame type in a turn
Rank(type) ==
  CASE type = "interim_transcript" -> 0
    [] type = "final_transcript" -> 1
    [] type = "llm_processing" -> 2
    [] type = "llm_complete" -> 3
    [] type = "audio" -> 4
    [] OTHER -> 5

\* C29: the frames a turn has written are in the order final_transcript,
\* llm_processing, llm_complete, audio chunks, each of the first three at
\* most once; llm_complete is there only after llm_processing and after the
\* backend call of the turn has been made and has returned, and an audio
\* chunk only after llm_complete.
C29_TurnFramesInOrder ==
  \A s \in SessionIds, h \in FrameIds :
    LET log == out[s][h] IN
    /\ \A i \in DOMAIN log, j \in DOMAIN log :
         i < j => \/ Rank(log[i].type) < Rank(log[j].type)
                  \/ log[i].type = "audio" /\ log[j].type = "audio" /\ log[i].n < log[j].n
    /\ CountType(log, "llm_processing") >= 1 => CountType(log, "final_transcript") = 1
    /\ CountType(log, "llm_complete") >= 1 =>
         /\ CountType(log, "llm_processing") = 1
         /\ \E c \in backendCalls : c.turn = h
         /\ hs[h].pc \notin {"stt", "create", "find", "saveUser", "backend"}
    /\ CountType(log, "audio") >= 1 => CountType(log, "llm_complete") = 1

\* a turn has written its four kinds of frames
C29_Witness ==
  \E s \in SessionIds, h \in FrameIds :
    /\ Len(out[s][h]) >= 5
    /\ out[s][h][1].type = "final_transcript"
    /\ out[s][h][2].type = "llm_processing"
    /\ out[s][h][3].type = "llm_complete"
    /\ out[s][h][4].type = "audio" /\ out[s][h][5].type = "audio"

\* C30: the user message, the backend call and the assistant message of a
\* turn carry one threadId and one conversation, whatever set_thread
\* messages are handled while the turn is in progress, and a turn calls the
\* backend at most once.
C30_TurnUsesOneThread ==
  \A h \in FrameIds :
    /\ \A m1 \in TurnMessages(h), m2 \in TurnMessages(h) :
         m1.threadId = m2.threadId /\ m1.conv = m2.conv
    /\ \A c \in backendCalls, m \in TurnMessages(h) :
         c.turn = h => c.threadId = m.threadId
    /\ Cardinality({c \in backendCalls : c.turn = h}) <= 1
    /\ InPipeline(h) =>
         /\ \A m \in TurnMessages(h) : m.threadId = hs[h].threadId
         /\ \A c \in backendCalls : c.turn = h => c.threadId = hs[h].threadId

\* a set_thread was handled while a turn was in progress: the turn has
\* persisted both messages and called the backend on its own thread, which
\* is no longer the session's
C30_Witness ==
  \E h \in FrameIds :
    /\ hs[h].pc \in {"update", "tts"}
    /\ sess[hs[h].s].threadId # hs[h].threadId
    /\ Cardinality(TurnMessages(h)) = 2
    /\ [turn |-> h, threadId |-> hs[h].threadId] \in backendCalls

====
